---- MODULE Spec2Model ----
(***************************************************************************)
(* Model of the redpanda module of testcontainers-go: the options of       *)
(* opts.go, the provisioning sequence StartContainer and the endpoint      *)
(* accessors of the Container type.                                        *)
(*                                                                         *)
(* Strings built by fmt.Sprintf / fmt.Errorf are modelled as sequences of  *)
(* their pieces: "%v:%d" of host h and port p is <<h, ":", p>> and an      *)
(* error wrapped with "msg: %w" is <<"msg">> \o err.  The nil error is the *)
(* empty sequence.                                                         *)
(***************************************************************************)
EXTENDS Integers, Sequences, FiniteSets, TLC

VARIABLES
    pc,          \* position of StartContainer
    settings,    \* local "settings" of StartContainer (type options)
    hostIP,      \* local "hostIP" ("" while unset)
    kafkaPort,   \* local "kafkaPort" (0 while unset)
    pending,     \* keys of settings.ServiceAccounts the range loop has not visited
    ret,         \* what StartContainer returned: [handle, err]
    calls,       \* the calls StartContainer has issued so far, in order
    ctr,         \* the container as the runtime sees it
    wt,          \* state of the composite readiness wait
    adminAPIUrl, \* local "adminAPIUrl" (empty while unset)
    users,       \* accounts the admin API has created
    acc,         \* result of the latest endpoint accessor call
    applied,     \* the options applied so far, when the loop of lines 46-48 is followed
                 \* one iteration at a time
    given,       \* per username, what the WithNewServiceAccount options of the call asked for
    rendered,    \* result of a call of renderNodeConfig on its own
    conc         \* two StartContainer calls running concurrently: their locals, the maps
                 \* they allocated and the containers they created

vars == <<pc, settings, hostIP, kafkaPort, pending, ret, calls, ctr, wt, adminAPIUrl, users, acc, applied,
         given, rendered, conc>>

----------------------------------------------------------------------------
(* Bounds of the model *)

\* longest option list passed to StartContainer
MaxOpts == 3
\* number of polls the readiness wait may issue before its deadline
WaitDeadline == 3

Usernames == {"alice", "bob", "carol"}
Passwords == {"pw1", "pw2"}
\* the passwords a caller gives for a username: only "alice" is given a choice,
\* which is what it takes to give one username twice with different passwords
PasswordsOf(u) == IF u = "alice" THEN Passwords ELSE {"pw1"}
SuperuserLists == {<<"alice">>, <<"bob", "alice">>}
Hosts == {"localhost", "10.0.0.7"}
HostPorts == {55001, 55002, 55003}
Causes == {"runtime error", "context canceled"}

----------------------------------------------------------------------------
(* Package-level values, part_000 lines 31-33 *)

defaultKafkaAPIPort == "9092/tcp"
defaultAdminAPIPort == "9644/tcp"
defaultSchemaRegistryPort == "8081/tcp"

ExposedPorts == {defaultKafkaAPIPort, defaultAdminAPIPort, defaultSchemaRegistryPort}

\* the port mappings the runtime may assign: distinct host ports per container
\* port; the three rotations of the host ports give every container port every
\* host port
PortMaps == {m \in [ExposedPorts -> HostPorts] :
                /\ \A p, q \in ExposedPorts : p # q => m[p] # m[q]
                /\ (m[defaultAdminAPIPort] - m[defaultKafkaAPIPort]) % Cardinality(HostPorts) = 1}

NilErr == << >>
NilHandle == "nil"
TheContainer == "container"

----------------------------------------------------------------------------
(* opts.go *)

EmptyMap == [u \in {} |-> "pw1"]

defaultOptions ==
    [ KafkaEnableAuthorization           |-> FALSE,
      Superusers                         |-> << >>,
      KafkaAuthenticationMethod          |-> "none",
      SchemaRegistryAuthenticationMethod |-> "none",
      ServiceAccounts                    |-> EmptyMap,
      Image                              |-> "docker.redpanda.com/redpandadata/redpanda:v23.1.6" ]

\* an option value: which constructor built it and with which arguments
Opt(name, user, pass, list) == [name |-> name, user |-> user, pass |-> pass, list |-> list]

WithNewServiceAccount(username, password) == Opt("WithNewServiceAccount", username, password, << >>)
WithSuperusers(superusers) == Opt("WithSuperusers", "", "", superusers)
WithEnableSASL == Opt("WithEnableSASL", "", "", << >>)
WithEnableKafkaAuthorization == Opt("WithEnableKafkaAuthorization", "", "", << >>)
WithEnableSchemaRegistryHTTPBasicAuth == Opt("WithEnableSchemaRegistryHTTPBasicAuth", "", "", << >>)

Options ==
    UNION {{WithNewServiceAccount(u, p) : p \in PasswordsOf(u)} : u \in Usernames}
    \cup {WithSuperusers(l) : l \in SuperuserLists}
    \cup {WithEnableSASL, WithEnableKafkaAuthorization, WithEnableSchemaRegistryHTTPBasicAuth}

\* MapPut that leaves a key it finds in the map as it is
MapPutKeepFirst(m, k, v) == [x \in DOMAIN m \cup {k} |-> IF x \in DOMAIN m THEN m[x] ELSE v]

\* o.ServiceAccounts[username] = password
MapPut(m, k, v) == [x \in DOMAIN m \cup {k} |-> IF x = k THEN v ELSE m[x]]

\* opt(&settings): the closure each constructor returns, applied to o.
\* WithEnableSchemaRegistryHTTPBasicAuth returns, at its first return statement,
\* a closure over the container request whose body assigns nothing; the closure
\* over *options that follows it is never returned.
ApplyOption(opt, o) ==
    CASE opt.name = "WithNewServiceAccount" ->
            [o EXCEPT !.ServiceAccounts = MapPut(@, opt.user, opt.pass)]
      [] opt.name = "WithSuperusers" ->
            [o EXCEPT !.Superusers = opt.list]
      [] opt.name = "WithEnableSASL" ->
            [o EXCEPT !.KafkaAuthenticationMethod = "sasl"]
      [] opt.name = "WithEnableKafkaAuthorization" ->
            [o EXCEPT !.KafkaEnableAuthorization = TRUE]
      [] opt.name = "WithEnableSchemaRegistryHTTPBasicAuth" ->
            o

\* for _, opt := range opts { opt(&settings) }
RECURSIVE ApplyAll(_, _)
ApplyAll(opts, o) ==
    IF opts = << >> THEN o ELSE ApplyAll(Tail(opts), ApplyOption(Head(opts), o))

\* the option lists a caller may pass
OptSeqs == UNION {[1..n -> Options] : n \in 0..MaxOpts}

\* what the caller asked for with WithNewServiceAccount, per username: the
\* passwords of the first and of the latest such option
NoneGiven == << >>
GivenPut(g, opt) ==
    IF opt.name = "WithNewServiceAccount"
    THEN [x \in DOMAIN g \cup {opt.user} |->
            IF x = opt.user
            THEN [first |-> IF opt.user \in DOMAIN g THEN g[opt.user].first ELSE opt.pass,
                  last  |-> opt.pass]
            ELSE g[x]]
    ELSE g

RECURSIVE GivenBy(_, _)
GivenBy(opts, g) ==
    IF opts = << >> THEN g ELSE GivenBy(Tail(opts), GivenPut(g, Head(opts)))

----------------------------------------------------------------------------
(* Values exchanged with the container runtime *)

\* a nat.Port value such as "55001/tcp", and nat.Port.Int()
NatPort(n) == [port |-> n, proto |-> "tcp"]
NoPort == [port |-> 0, proto |-> ""]
PortInt(p) == p.port

\* the %d verb on the port numbers of the model
FormatInt(n) ==
    CASE n = 55001 -> "55001"
      [] n = 55002 -> "55002"
      [] n = 55003 -> "55003"
      [] OTHER     -> "0"

\* fmt.Errorf("<msg>: %w", err)
Wrap(msg, err) == <<msg>> \o err
\* fmt.Errorf("failed to create service account with username %q: %w", username, err)
WrapUser(username, err) ==
    <<"failed to create service account with username", username>> \o err

\* one call of StartContainer and the error it returned (NilErr: none)
Call(op, arg, err) == [op |-> op, arg |-> arg, ok |-> err = NilErr, err |-> err]

NoContainer ==
    [ state      |-> "absent",
      host       |-> "",
      ports      |-> [p \in ExposedPorts |-> 0],
      files      |-> {},
      fileModes  |-> {},
      entrypoint |-> << >>,
      cmd        |-> << >>,
      nodeConfig |-> {},
      started    |-> FALSE,
      marker     |-> FALSE,
      healthy    |-> FALSE ]

\* the result of Host(ctx): the container's host address, or an error
HostResults(c) ==
    {[ok |-> FALSE, val |-> "", err |-> <<e>>] : e \in Causes}
    \cup (IF c.state \in {"created", "running"}
          THEN {[ok |-> TRUE, val |-> c.host, err |-> NilErr]} ELSE {})

\* the result of MappedPort(ctx, port): the host port bound to it, or an error
PortResults(c, port) ==
    {[ok |-> FALSE, val |-> NoPort, err |-> <<e>>] : e \in Causes}
    \cup (IF c.state = "running"
          THEN {[ok |-> TRUE, val |-> NatPort(c.ports[port]), err |-> NilErr]} ELSE {})

----------------------------------------------------------------------------
(* renderNodeConfig, part_000 lines 274-298: the parameters the node config  *)
(* template is executed with                                                *)

\* renderNodeConfig that advertises the container's own Kafka port
renderNodeConfigContainerPort(s, host, advertisedKafkaPort) ==
    [ KafkaAPI |->
        [ AdvertisedHost       |-> host,
          AdvertisedPort       |-> 9092,
          AuthenticationMethod |-> s.KafkaAuthenticationMethod,
          EnableAuthorization  |-> s.KafkaEnableAuthorization ],
      SchemaRegistry |->
        [ AuthenticationMethod |-> s.SchemaRegistryAuthenticationMethod ] ]

\* renderNodeConfig that fills the schema registry's authentication method
\* from the Kafka API's
renderNodeConfigKafkaAuthTwice(s, host, advertisedKafkaPort) ==
    [ KafkaAPI |->
        [ AdvertisedHost       |-> host,
          AdvertisedPort       |-> advertisedKafkaPort,
          AuthenticationMethod |-> s.KafkaAuthenticationMethod,
          EnableAuthorization  |-> s.KafkaEnableAuthorization ],
      SchemaRegistry |->
        [ AuthenticationMethod |-> s.KafkaAuthenticationMethod ] ]

\* renderNodeConfig, lines 274-298: the parameters the node config template is
\* executed with
renderNodeConfig(s, host, advertisedKafkaPort) ==
    [ KafkaAPI |->
        [ AdvertisedHost       |-> host,
          AdvertisedPort       |-> advertisedKafkaPort,
          AuthenticationMethod |-> s.KafkaAuthenticationMethod,
          EnableAuthorization  |-> s.KafkaEnableAuthorization ],
      SchemaRegistry |->
        [ AuthenticationMethod |-> s.SchemaRegistryAuthenticationMethod ] ]

\* the errors renderNodeConfig returns when the template does not parse or execute
RenderErrors ==
    { <<"failed to parse redpanda config file template", "template error">>,
      <<"failed to render redpanda node config template", "template error">> }

\* createBootstrapConfigFile, lines 244-270: the parameters of the bootstrap template
createBootstrapConfigFile(s) ==
    [ Superusers                  |-> s.Superusers,
      KafkaAPIEnableAuthorization |-> s.KafkaEnableAuthorization ]

\* the errors createBootstrapConfigFile returns
BootstrapErrors ==
    { <<"failed to parse redpanda config file template", "template error">>,
      <<"failed to render redpanda bootstrap config template", "template error">>,
      <<"io error">> }

----------------------------------------------------------------------------
(* StartContainer, part_000 lines 43-179 *)

\* the FileMode given for every file put into the container, lines 76, 81, 128
FileMode == 700

\* containerReq with a command that starts the broker directly
ContainerRequestNoShim(s) ==
    [ Image        |-> s.Image,
      User         |-> "root:root",
      Files        |-> { [ContainerFilePath |-> "/entrypoint-tc.sh", FileMode |-> FileMode],
                         [ContainerFilePath |-> "/etc/redpanda/.bootstrap.yaml", FileMode |-> FileMode] },
      ExposedPorts |-> ExposedPorts,
      Entrypoint   |-> << >>,
      Cmd          |-> <<"redpanda", "start", "--mode=dev-container">> ]

\* containerReq, lines 69-96
ContainerRequest(s) ==
    [ Image        |-> s.Image,
      User         |-> "root:root",
      Files        |-> { [ContainerFilePath |-> "/entrypoint-tc.sh", FileMode |-> FileMode],
                         [ContainerFilePath |-> "/etc/redpanda/.bootstrap.yaml", FileMode |-> FileMode] },
      ExposedPorts |-> ExposedPorts,
      Entrypoint   |-> << >>,
      Cmd          |-> <<"/entrypoint-tc.sh", "redpanda", "start", "--mode=dev-container">> ]

\* the container the runtime makes of a request: its files with their modes
\* and the command it runs
Requested(c, req) ==
    [c EXCEPT !.files = {f.ContainerFilePath : f \in req.Files},
              !.fileModes = {[path |-> f.ContainerFilePath, mode |-> f.FileMode] : f \in req.Files},
              !.entrypoint = req.Entrypoint,
              !.cmd = req.Cmd]

\* StageAfter with the node config injected right after the container is
\* created, before the host and the Kafka port are looked up
StageAfterConfigFirst(stage) ==
    CASE stage = "opts"        -> "entrypoint"
      [] stage = "entrypoint"  -> "bootstrap"
      [] stage = "bootstrap"   -> "create"
      [] stage = "create"      -> "config"
      [] stage = "config"      -> "host"
      [] stage = "host"        -> "kafkaPort"
      [] stage = "kafkaPort"   -> "wait"
      [] stage = "wait"        -> "accounts"
      [] stage = "accounts"    -> "createUser"
      [] OTHER                 -> "done"

\* StageAfter without the readiness wait
StageAfterSkipWait(stage) ==
    CASE stage = "opts"        -> "entrypoint"
      [] stage = "entrypoint"  -> "bootstrap"
      [] stage = "bootstrap"   -> "create"
      [] stage = "create"      -> "host"
      [] stage = "host"        -> "kafkaPort"
      [] stage = "kafkaPort"   -> "config"
      [] stage = "config"      -> "accounts"
      [] stage = "accounts"    -> "createUser"
      [] OTHER                 -> "done"

\* the statement order of StartContainer: the stage a successful stage leads to
StageAfter(stage) ==
    CASE stage = "opts"        -> "entrypoint"
      [] stage = "entrypoint"  -> "bootstrap"
      [] stage = "bootstrap"   -> "create"
      [] stage = "create"      -> "host"
      [] stage = "host"        -> "kafkaPort"
      [] stage = "kafkaPort"   -> "config"
      [] stage = "config"      -> "wait"
      [] stage = "wait"        -> "accounts"
      [] stage = "accounts"    -> "createUser"
      [] OTHER                 -> "done"

\* Fail that records the error and tries the stage again
FailRetry(e) ==
    /\ pc' = pc
    /\ ret' = [handle |-> NilHandle, err |-> e]
    /\ ctr' = ctr

\* Fail that terminates the container before it returns
FailTerminating(e) ==
    /\ pc' = "done"
    /\ ret' = [handle |-> NilHandle, err |-> e]
    /\ ctr' = [ctr EXCEPT !.state = IF @ = "running" THEN "terminated" ELSE @]

\* return nil, <err>: no handle, the error, and nothing done to the container
Fail(e) ==
    /\ pc' = "done"
    /\ ret' = [handle |-> NilHandle, err |-> e]
    /\ ctr' = ctr

\* return &Container{Container: container}, nil
ReturnContainer ==
    /\ pc' = "done"
    /\ ret' = [handle |-> TheContainer, err |-> NilErr]

\* len(settings.ServiceAccounts) > 0
\* HasAccounts that is true of the empty map too
HasAccountsAlways(s) == Cardinality(DOMAIN s.ServiceAccounts) >= 0

HasAccounts(s) == Cardinality(DOMAIN s.ServiceAccounts) > 0

NoWait ==
    [elapsed |-> 0, logSeen |-> FALSE, httpSeen |-> FALSE, healthyReturned |-> FALSE,
     rejected |-> FALSE]
NoAcc == [fn |-> "", addr |-> << >>, err |-> NilErr]

\* renderNodeConfig has not been called on its own
NoRender == [cfg |-> {}, err |-> NilErr]

\* the callers of the two concurrent StartContainer calls
Callers == {1, 2}

\* a call that has not begun: no settings map allocated (address 0), no
\* option applied, no container
NoCall ==
    [ pc        |-> "start",
      settings  |-> [defaultOptions EXCEPT !.ServiceAccounts = 0],
      want      |-> defaultOptions,
      n         |-> 0,
      container |-> 0,
      handle    |-> 0 ]

\* no map allocated, no container created, neither call begun
NoCalls == [heap |-> << >>, containers |-> << >>, call |-> [p \in Callers |-> NoCall]]

Init ==
    /\ pc = "opts"
    /\ settings = defaultOptions
    /\ hostIP = ""
    /\ kafkaPort = NoPort
    /\ pending = {}
    /\ ret = [handle |-> NilHandle, err |-> NilErr]
    /\ calls = << >>
    /\ ctr = NoContainer
    /\ wt = NoWait
    /\ adminAPIUrl = << >>
    /\ users = {}
    /\ acc = NoAcc
    /\ applied = << >>
    /\ given = NoneGiven
    /\ rendered = NoRender
    /\ conc = NoCalls

\* lines 45-48
GatherOptions ==
    /\ pc = "opts"
    /\ \E opts \in OptSeqs :
         /\ settings' = ApplyAll(opts, defaultOptions)
         /\ given' = GivenBy(opts, NoneGiven)
    /\ pc' = StageAfter("opts")
    /\ UNCHANGED <<conc, rendered, applied, hostIP, kafkaPort, pending, ret, calls, ctr, wt, adminAPIUrl, users, acc>>

\* lines 56-59
CreateEntrypointFile ==
    /\ pc = "entrypoint"
    /\ \E err \in {NilErr, <<"io error">>} :
         /\ calls' = Append(calls, Call("createEntrypointTmpFile", "", err))
         /\ IF err = NilErr
            THEN pc' = StageAfter("entrypoint") /\ UNCHANGED <<ret, ctr>>
            ELSE Fail(Wrap("failed to create entrypoint file", err))
    /\ UNCHANGED <<conc, rendered, given, applied, settings, hostIP, kafkaPort, pending, wt, adminAPIUrl, users, acc>>

\* lines 63-66
CreateBootstrapFile ==
    /\ pc = "bootstrap"
    /\ \/ /\ calls' = Append(calls, Call("createBootstrapConfigFile", "", NilErr))
          /\ pc' = StageAfter("bootstrap")
          /\ UNCHANGED <<ret, ctr>>
       \/ \E e \in BootstrapErrors :
          /\ calls' = Append(calls, Call("createBootstrapConfigFile", "", e))
          /\ Fail(Wrap("failed to create bootstrap config file", e))
    /\ UNCHANGED <<conc, rendered, given, applied, settings, hostIP, kafkaPort, pending, wt, adminAPIUrl, users, acc>>

\* lines 69-104: the request is created and the container started; the runtime
\* assigns the host ports.  A failure leaves no container, or one that was
\* created and did not start.
CreateContainer ==
    /\ pc = "create"
    /\ \/ \E h \in Hosts, m \in PortMaps :
          /\ calls' = Append(calls, Call("GenericContainer", "", NilErr))
          /\ ctr' = [Requested(ctr, ContainerRequest(settings))
                        EXCEPT !.state = "running", !.host = h, !.ports = m]
          /\ pc' = StageAfter("create")
          /\ UNCHANGED ret
       \/ \E e \in Causes :
          /\ calls' = Append(calls, Call("GenericContainer", "", <<e>>))
          /\ pc' = "done"
          /\ ret' = [handle |-> NilHandle, err |-> <<e>>]
          /\ \/ ctr' = ctr
             \/ \E h \in Hosts, m \in PortMaps :
                  ctr' = [Requested(ctr, ContainerRequest(settings))
                            EXCEPT !.state = "created", !.host = h, !.ports = m]
    /\ UNCHANGED <<conc, rendered, given, applied, settings, hostIP, kafkaPort, pending, wt, adminAPIUrl, users, acc>>

\* lines 108-111
GetHost ==
    /\ pc = "host"
    /\ \E r \in HostResults(ctr) :
         /\ calls' = Append(calls, Call("Host", "", r.err))
         /\ IF r.ok
            THEN hostIP' = r.val /\ pc' = StageAfter("host") /\ UNCHANGED <<ret, ctr>>
            ELSE Fail(Wrap("failed to get container host", r.err)) /\ UNCHANGED hostIP
    /\ UNCHANGED <<conc, rendered, given, applied, settings, kafkaPort, pending, wt, adminAPIUrl, users, acc>>

\* lines 113-116
GetKafkaPort ==
    /\ pc = "kafkaPort"
    /\ \E r \in PortResults(ctr, defaultKafkaAPIPort) :
         /\ calls' = Append(calls, Call("MappedPort", defaultKafkaAPIPort, r.err))
         /\ IF r.ok
            THEN kafkaPort' = r.val /\ pc' = StageAfter("kafkaPort") /\ UNCHANGED <<ret, ctr>>
            ELSE Fail(Wrap("failed to get mapped Kafka port", r.err)) /\ UNCHANGED kafkaPort
    /\ UNCHANGED <<conc, rendered, given, applied, settings, hostIP, pending, wt, adminAPIUrl, users, acc>>

\* lines 119-132: render the node config, then copy it into the container
InjectNodeConfig ==
    /\ pc = "config"
    /\ \/ \E e \in RenderErrors :
          /\ calls' = Append(calls, Call("renderNodeConfig", "", e))
          /\ Fail(Wrap("failed to render node config", e))
       \/ \E e \in Causes :
          /\ calls' = calls \o <<Call("renderNodeConfig", "", NilErr),
                                 Call("CopyToContainer", "/etc/redpanda/redpanda.yaml", <<e>>)>>
          /\ Fail(Wrap("failed to copy redpanda.yaml into container", <<e>>))
       \/ /\ calls' = calls \o <<Call("renderNodeConfig", "", NilErr),
                                 Call("CopyToContainer", "/etc/redpanda/redpanda.yaml", NilErr)>>
          /\ ctr' = [ctr EXCEPT
                       !.files = @ \cup {"/etc/redpanda/redpanda.yaml"},
                       !.fileModes = @ \cup {[path |-> "/etc/redpanda/redpanda.yaml",
                                               mode |-> FileMode]},
                       !.nodeConfig = {renderNodeConfig(settings, hostIP, PortInt(kafkaPort))}]
          /\ pc' = StageAfter("config")
          /\ UNCHANGED ret
    /\ UNCHANGED <<conc, rendered, given, applied, settings, hostIP, kafkaPort, pending, wt, adminAPIUrl, users, acc>>

----------------------------------------------------------------------------
(* The composite readiness wait, lines 135-156 *)

\* an HTTP response of the admin API: status 0 stands for a refused connection
Body(readable, json, healthy) == [readable |-> readable, json |-> json, is_healthy |-> healthy]
UnreadableBody == Body(FALSE, FALSE, FALSE)
MalformedBody == Body(TRUE, FALSE, FALSE)
UnhealthyBody == Body(TRUE, TRUE, FALSE)
HealthyBody == Body(TRUE, TRUE, TRUE)

\* what GET /v1/cluster/health_overview may answer in container state c
Responses(c) ==
    {[status |-> 0, body |-> UnreadableBody]}
    \cup (IF c.started
          THEN {[status |-> 500, body |-> MalformedBody],
                [status |-> 200, body |-> UnreadableBody],
                [status |-> 200, body |-> MalformedBody],
                [status |-> 200, body |-> UnhealthyBody]}
          ELSE {})
    \cup (IF c.started /\ c.healthy THEN {[status |-> 200, body |-> HealthyBody]} ELSE {})

\* ResponseMatcher that returns true where the body cannot be read or parsed
ResponseMatcherErrIsReady(body) ==
    IF ~body.readable THEN TRUE
    ELSE IF ~body.json THEN TRUE
    ELSE body.is_healthy

\* ResponseMatcher that accepts every body that parses, whatever its health flag
ResponseMatcherAnyOverview(body) ==
    IF ~body.readable THEN FALSE
    ELSE IF ~body.json THEN FALSE
    ELSE TRUE

\* WithResponseMatcher(func(body io.Reader) bool {...}), lines 139-151
ResponseMatcher(body) ==
    IF ~body.readable THEN FALSE
    ELSE IF ~body.json THEN FALSE
    ELSE body.is_healthy

\* wait.ForHTTP: one probe is satisfied by a 200 response the matcher accepts
HTTPReady(resp) == resp.status = 200 /\ ResponseMatcher(resp.body)

\* wait.ForLog: one poll is satisfied when the log holds the marker line
LogReady(c) == c.marker

\* wait.ForAll: ready when every strategy has been satisfied
ForAllReady(w) == w.logSeen /\ w.httpSeen

\* the deadline of the wait has passed
DeadlinePassed(w) == w.elapsed >= WaitDeadline

\* the wait once WaitUntilReady has returned: what its strategies observed;
\* the probes they rejected on the way are not kept
Returned(w) == [w EXCEPT !.rejected = FALSE]

\* WaitFailure that drops the error of the wait and goes on
WaitFailureIgnored(err) ==
    /\ pc' = StageAfter("wait")
    /\ UNCHANGED <<ret, ctr>>

\* lines 154-156
WaitFailure(err) == Fail(Wrap("failed to wait for Redpanda readiness", err))

WaitPollLog ==
    /\ pc = "wait"
    /\ ~DeadlinePassed(wt)
    /\ ~wt.logSeen
    /\ wt' = [wt EXCEPT !.elapsed = @ + 1, !.logSeen = LogReady(ctr)]
    /\ UNCHANGED <<conc, rendered, given, applied, pc, settings, hostIP, kafkaPort, pending, ret, calls, ctr, adminAPIUrl, users, acc>>

WaitPollHTTP ==
    /\ pc = "wait"
    /\ ~DeadlinePassed(wt)
    /\ ~wt.httpSeen
    /\ \E resp \in Responses(ctr) :
         wt' = [wt EXCEPT !.elapsed = @ + 1,
                          !.httpSeen = HTTPReady(resp),
                          !.rejected = @ \/ ~HTTPReady(resp),
                          !.healthyReturned = @ \/ (resp.status = 200 /\ resp.body = HealthyBody)]
    /\ UNCHANGED <<conc, rendered, given, applied, pc, settings, hostIP, kafkaPort, pending, ret, calls, ctr, adminAPIUrl, users, acc>>

\* WaitUntilReady returns nil, line 153
WaitReady ==
    /\ pc = "wait"
    /\ ForAllReady(wt)
    /\ calls' = Append(calls, Call("WaitUntilReady", "", NilErr))
    /\ pc' = StageAfter("wait")
    /\ wt' = Returned(wt)
    /\ UNCHANGED <<conc, rendered, given, applied, settings, hostIP, kafkaPort, pending, ret, ctr, adminAPIUrl, users, acc>>

\* WaitUntilReady returns an error at its deadline, lines 154-156
WaitTimeout ==
    /\ pc = "wait"
    /\ DeadlinePassed(wt)
    /\ ~ForAllReady(wt)
    /\ calls' = Append(calls, Call("WaitUntilReady", "", <<"deadline exceeded">>))
    /\ WaitFailure(<<"deadline exceeded">>)
    /\ wt' = Returned(wt)
    /\ UNCHANGED <<conc, rendered, given, applied, settings, hostIP, kafkaPort, pending, adminAPIUrl, users, acc>>

\* WaitUntilReady returns because the caller's context was cancelled
WaitCancelled ==
    /\ pc = "wait"
    /\ ~ForAllReady(wt)
    /\ calls' = Append(calls, Call("WaitUntilReady", "", <<"context canceled">>))
    /\ WaitFailure(<<"context canceled">>)
    /\ wt' = Returned(wt)
    /\ UNCHANGED <<conc, rendered, given, applied, settings, hostIP, kafkaPort, pending, adminAPIUrl, users, acc>>

----------------------------------------------------------------------------
(* Service accounts, lines 159-176 *)

\* fmt.Sprintf("http://%v:%d", hostIP, adminAPIPort.Int())
AdminURL(host, port) == <<"http://", host, ":", FormatInt(PortInt(port))>>

\* lines 159-169
NewAdminClient ==
    /\ pc = "accounts"
    /\ HasAccounts(settings)
    /\ \E r \in PortResults(ctr, defaultAdminAPIPort) :
         IF ~r.ok
         THEN /\ calls' = Append(calls, Call("MappedPort", defaultAdminAPIPort, r.err))
              /\ Fail(Wrap("failed to get mapped Admin API port", r.err))
              /\ UNCHANGED <<adminAPIUrl, pending>>
         ELSE \/ \E e \in {"invalid url"} :
                 /\ calls' = calls \o <<Call("MappedPort", defaultAdminAPIPort, NilErr),
                                        Call("NewAdminAPI", "", <<e>>)>>
                 /\ adminAPIUrl' = AdminURL(hostIP, r.val)
                 /\ Fail(Wrap("failed to create new admin api client", <<e>>))
                 /\ UNCHANGED pending
              \/ /\ calls' = calls \o <<Call("MappedPort", defaultAdminAPIPort, NilErr),
                                        Call("NewAdminAPI", "", NilErr)>>
                 /\ adminAPIUrl' = AdminURL(hostIP, r.val)
                 /\ pending' = DOMAIN settings.ServiceAccounts
                 /\ pc' = StageAfter("accounts")
                 /\ UNCHANGED <<ret, ctr>>
    /\ UNCHANGED <<conc, rendered, given, applied, settings, hostIP, kafkaPort, wt, users, acc>>

\* CreateUserFailure that skips the failed account and continues the loop
CreateUserFailureContinue(username, err) ==
    /\ pc' = pc
    /\ UNCHANGED <<ret, ctr>>

\* lines 172-174: the loop is left at the first CreateUser that fails
CreateUserFailure(username, err) == Fail(WrapUser(username, err))

\* one iteration of the range loop, lines 171-175; Go visits the keys of a map
\* in no fixed order
CreateUser ==
    /\ pc = "createUser"
    /\ \E username \in pending :
         LET password == settings.ServiceAccounts[username] IN
         \/ /\ calls' = Append(calls, Call("CreateUser", username, NilErr))
            /\ users' = users \cup {[username |-> username, password |-> password,
                                     mechanism |-> "SCRAM-SHA-256"]}
            /\ pending' = pending \ {username}
            /\ UNCHANGED <<pc, ret, ctr>>
         \/ \E e \in Causes :
            /\ calls' = Append(calls, Call("CreateUser", username, <<e>>))
            /\ CreateUserFailure(username, <<e>>)
            /\ UNCHANGED <<users, pending>>
    /\ UNCHANGED <<conc, rendered, given, applied, settings, hostIP, kafkaPort, wt, adminAPIUrl, acc>>

\* line 178, reached past the if of line 159 or past the loop
Return ==
    /\ \/ pc = "accounts" /\ ~HasAccounts(settings)
       \/ pc = "createUser" /\ pending = {}
    /\ ReturnContainer
    /\ UNCHANGED <<conc, rendered, given, applied, settings, hostIP, kafkaPort, pending, calls, ctr, wt, adminAPIUrl, users, acc>>

----------------------------------------------------------------------------
(* The container: the shim /entrypoint-tc.sh and the broker it starts *)

\* the command line of the container's main process
CommandLine(c) == c.entrypoint \o c.cmd

\* a file may be executed when one of its execute bits is set
Executable(c, path) ==
    \E f \in c.fileModes :
        /\ f.path = path
        /\ \E bit \in {1, 8, 64} : (f.mode \div bit) % 2 = 1

\* the broker starts: when the command line begins with the shim, the shim
\* runs, finds the node config and executes the rest of the command line;
\* otherwise the command line is executed as it is
ShimStartsBroker ==
    /\ ctr.state = "running"
    /\ ~ctr.started
    /\ CommandLine(ctr) # << >>
    /\ IF Head(CommandLine(ctr)) = "/entrypoint-tc.sh"
       THEN /\ Executable(ctr, "/entrypoint-tc.sh")
            /\ ctr.nodeConfig # {}
            /\ Tail(CommandLine(ctr)) = <<"redpanda", "start", "--mode=dev-container">>
       ELSE CommandLine(ctr) = <<"redpanda", "start", "--mode=dev-container">>
    /\ ctr' = [ctr EXCEPT !.started = TRUE]
    /\ UNCHANGED <<conc, rendered, given, applied, pc, settings, hostIP, kafkaPort, pending, ret, calls, wt, adminAPIUrl, users, acc>>

\* the broker logs "Successfully started Redpanda!"
BrokerLogsStarted ==
    /\ ctr.state = "running"
    /\ ctr.started
    /\ ~ctr.marker
    /\ ctr' = [ctr EXCEPT !.marker = TRUE]
    /\ UNCHANGED <<conc, rendered, given, applied, pc, settings, hostIP, kafkaPort, pending, ret, calls, wt, adminAPIUrl, users, acc>>

\* the cluster becomes healthy
BrokerBecomesHealthy ==
    /\ ctr.state = "running"
    /\ ctr.started
    /\ ~ctr.healthy
    /\ ctr' = [ctr EXCEPT !.healthy = TRUE]
    /\ UNCHANGED <<conc, rendered, given, applied, pc, settings, hostIP, kafkaPort, pending, ret, calls, wt, adminAPIUrl, users, acc>>

----------------------------------------------------------------------------
(* The caller, holding the *Container that StartContainer returned *)

\* Terminate, promoted from the embedded testcontainers.Container
Terminate ==
    /\ pc = "done"
    /\ ret.handle = TheContainer
    /\ ctr.state = "running"
    /\ ctr' = [ctr EXCEPT !.state = "terminated"]
    /\ UNCHANGED <<conc, rendered, given, applied, pc, settings, hostIP, kafkaPort, pending, ret, calls, wt, adminAPIUrl, users, acc>>

\* how the two lookups of getMappedHostPort may end on container c
Outcomes(c) == {"hostErr", "portErr"} \cup (IF c.state = "running" THEN {"ok"} ELSE {})

\* getMappedHostPort that hands back the host it resolved when the port lookup
\* fails
getMappedHostPortPartial(c, port, outcome, e) ==
    IF outcome = "hostErr"
    THEN [addr |-> << >>, err |-> Wrap("failed to get hostIP", <<e>>)]
    ELSE IF outcome = "portErr"
    THEN [addr |-> <<c.host, ":">>, err |-> Wrap("failed to get mapped port", <<e>>)]
    ELSE [addr |-> <<c.host, ":", FormatInt(PortInt(NatPort(c.ports[port])))>>, err |-> NilErr]

\* getMappedHostPort, lines 211-223
getMappedHostPort(c, port, outcome, e) ==
    IF outcome = "hostErr"
    THEN [addr |-> << >>, err |-> Wrap("failed to get hostIP", <<e>>)]
    ELSE IF outcome = "portErr"
    THEN [addr |-> << >>, err |-> Wrap("failed to get mapped port", <<e>>)]
    ELSE [addr |-> <<c.host, ":", FormatInt(PortInt(NatPort(c.ports[port])))>>, err |-> NilErr]

\* lines 184-186
KafkaSeedBrokerOf(c, outcome, e) ==
    getMappedHostPort(c, defaultKafkaAPIPort, outcome, e)

\* AdminAPIAddressOf that looks up the Kafka API port
AdminAPIAddressOfKafkaPort(c, outcome, e) ==
    LET r == getMappedHostPort(c, defaultKafkaAPIPort, outcome, e) IN
    IF r.err # NilErr
    THEN [addr |-> << >>, err |-> r.err]
    ELSE [addr |-> <<"http://">> \o r.addr, err |-> NilErr]

\* lines 190-196
AdminAPIAddressOf(c, outcome, e) ==
    LET r == getMappedHostPort(c, defaultAdminAPIPort, outcome, e) IN
    IF r.err # NilErr
    THEN [addr |-> << >>, err |-> r.err]
    ELSE [addr |-> <<"http://">> \o r.addr, err |-> NilErr]

\* lines 200-206
SchemaRegistryAddressOf(c, outcome, e) ==
    LET r == getMappedHostPort(c, defaultSchemaRegistryPort, outcome, e) IN
    IF r.err # NilErr
    THEN [addr |-> << >>, err |-> r.err]
    ELSE [addr |-> <<"http://">> \o r.addr, err |-> NilErr]

AccResult(fn, r) == [fn |-> fn, addr |-> r.addr, err |-> r.err]

KafkaSeedBroker ==
    /\ pc = "done"
    /\ ret.handle = TheContainer
    /\ \E o \in Outcomes(ctr), e \in {"runtime error"} :
         acc' = AccResult("KafkaSeedBroker", KafkaSeedBrokerOf(ctr, o, e))
    /\ UNCHANGED <<conc, rendered, given, applied, pc, settings, hostIP, kafkaPort, pending, ret, calls, ctr, wt, adminAPIUrl, users>>

AdminAPIAddress ==
    /\ pc = "done"
    /\ ret.handle = TheContainer
    /\ \E o \in Outcomes(ctr), e \in {"runtime error"} :
         acc' = AccResult("AdminAPIAddress", AdminAPIAddressOf(ctr, o, e))
    /\ UNCHANGED <<conc, rendered, given, applied, pc, settings, hostIP, kafkaPort, pending, ret, calls, ctr, wt, adminAPIUrl, users>>

SchemaRegistryAddress ==
    /\ pc = "done"
    /\ ret.handle = TheContainer
    /\ \E o \in Outcomes(ctr), e \in {"runtime error"} :
         acc' = AccResult("SchemaRegistryAddress", SchemaRegistryAddressOf(ctr, o, e))
    /\ UNCHANGED <<conc, rendered, given, applied, pc, settings, hostIP, kafkaPort, pending, ret, calls, ctr, wt, adminAPIUrl, users>>

----------------------------------------------------------------------------

Next ==
    \/ GatherOptions
    \/ CreateEntrypointFile
    \/ CreateBootstrapFile
    \/ CreateContainer
    \/ GetHost
    \/ GetKafkaPort
    \/ InjectNodeConfig
    \/ WaitPollLog
    \/ WaitPollHTTP
    \/ WaitReady
    \/ WaitTimeout
    \/ WaitCancelled
    \/ NewAdminClient
    \/ CreateUser
    \/ Return
    \/ ShimStartsBroker
    \/ BrokerLogsStarted
    \/ BrokerBecomesHealthy
    \/ Terminate
    \/ KafkaSeedBroker
    \/ AdminAPIAddress
    \/ SchemaRegistryAddress

Spec == Init /\ [][Next]_vars

\* a step of the readiness wait: a poll that is due is issued, and
\* WaitUntilReady returns once it can
WaitStep == WaitPollLog \/ WaitPollHTTP \/ WaitReady \/ WaitTimeout \/ WaitCancelled

\* StartContainer and the container, without the caller's later calls
StartNext ==
    \/ GatherOptions
    \/ CreateEntrypointFile
    \/ CreateBootstrapFile
    \/ CreateContainer
    \/ GetHost
    \/ GetKafkaPort
    \/ InjectNodeConfig
    \/ WaitPollLog
    \/ WaitPollHTTP
    \/ WaitReady
    \/ WaitTimeout
    \/ WaitCancelled
    \/ NewAdminClient
    \/ CreateUser
    \/ Return
    \/ ShimStartsBroker
    \/ BrokerLogsStarted
    \/ BrokerBecomesHealthy

\* StartContainer with the wait's polling loop and timer running
LiveSpec == Init /\ [][StartNext]_vars /\ WF_vars(WaitStep)

----------------------------------------------------------------------------
(* The option loop alone, one iteration per step *)

\* one iteration of lines 46-48: opt(&settings)
ApplyOneOption ==
    /\ pc = "opts"
    /\ Len(applied) < MaxOpts
    /\ \E opt \in Options :
         /\ settings' = ApplyOption(opt, settings)
         /\ applied' = Append(applied, opt)
         /\ given' = GivenPut(given, opt)
    /\ UNCHANGED <<conc, rendered, pc, hostIP, kafkaPort, pending, ret, calls, ctr, wt, adminAPIUrl, users, acc>>

OptNext == ApplyOneOption

OptSpec == Init /\ [][OptNext]_vars

----------------------------------------------------------------------------
(* Two StartContainer calls at once.  Each call has its own locals; the     *)
(* ServiceAccounts map of a settings value is a reference into the heap of  *)
(* maps, as a Go map is; the stages of one call are steps that interleave   *)
(* with those of the other.                                                 *)

\* most options one concurrent call applies
MaxConcOpts == 2

\* the options the concurrent calls draw from
ConcOptions ==
    { WithNewServiceAccount("alice", "pw1"), WithNewServiceAccount("alice", "pw2"),
      WithNewServiceAccount("bob", "pw1"), WithEnableSASL }

\* a settings value whose map is the one every call would get if the default
\* map were a single package-level value
AllocShared(heap) ==
    [addr |-> 1, heap |-> IF heap = << >> THEN <<EmptyMap>> ELSE heap]

\* make(map[string]string, 0): a map no one else holds, at a new address
Alloc(heap) == [addr |-> Len(heap) + 1, heap |-> Append(heap, EmptyMap)]

\* a settings value with the map its ServiceAccounts field refers to
Deref(s, heap) == [s EXCEPT !.ServiceAccounts = heap[s.ServiceAccounts]]

\* the lowest host port no container of the two calls is bound to
FreePort(containers) ==
    CHOOSE n \in HostPorts :
        /\ \A k \in 1..Len(containers) : containers[k].port # n
        /\ \A m \in HostPorts : (\A k \in 1..Len(containers) : containers[k].port # m) => n <= m

\* settings := defaultOptions()
CDefaultOptions(p) ==
    /\ conc.call[p].pc = "start"
    /\ LET a == Alloc(conc.heap) IN
         conc' = [conc EXCEPT
                    !.heap = a.heap,
                    !.call[p].settings = [defaultOptions EXCEPT !.ServiceAccounts = a.addr],
                    !.call[p].pc = "opts"]
    /\ UNCHANGED <<pc, settings, hostIP, kafkaPort, pending, ret, calls, ctr, wt, adminAPIUrl,
                   users, acc, applied, given, rendered>>

\* one iteration of for _, opt := range opts { opt(&settings) }
CApplyOption(p) ==
    /\ conc.call[p].pc = "opts"
    /\ conc.call[p].n < MaxConcOpts
    /\ \E opt \in ConcOptions :
         LET addr == conc.call[p].settings.ServiceAccounts
             new  == ApplyOption(opt, Deref(conc.call[p].settings, conc.heap))
         IN conc' = [conc EXCEPT
                       !.heap[addr] = new.ServiceAccounts,
                       !.call[p].settings = [new EXCEPT !.ServiceAccounts = addr],
                       !.call[p].want = ApplyOption(opt, @),
                       !.call[p].n = @ + 1]
    /\ UNCHANGED <<pc, settings, hostIP, kafkaPort, pending, ret, calls, ctr, wt, adminAPIUrl,
                   users, acc, applied, given, rendered>>

\* the option loop ends; lines 50-104: the bootstrap file is rendered from the
\* call's settings and GenericContainer creates and starts a new container
CCreateContainer(p) ==
    /\ conc.call[p].pc = "opts"
    /\ conc' = [conc EXCEPT
                  !.containers = Append(@,
                      [ port       |-> FreePort(conc.containers),
                        bootstrap  |-> createBootstrapConfigFile(Deref(conc.call[p].settings, conc.heap)),
                        nodeConfig |-> {},
                        users      |-> {} ]),
                  !.call[p].container = Len(conc.containers) + 1,
                  !.call[p].pc = "config"]
    /\ UNCHANGED <<pc, settings, hostIP, kafkaPort, pending, ret, calls, ctr, wt, adminAPIUrl,
                   users, acc, applied, given, rendered>>

\* lines 106-132: the node config is rendered from the call's settings and the
\* address of the call's container, and copied into that container
CInjectNodeConfig(p) ==
    /\ conc.call[p].pc = "config"
    /\ LET c == conc.call[p].container IN
         conc' = [conc EXCEPT
                    !.containers[c].nodeConfig =
                        {renderNodeConfig(Deref(conc.call[p].settings, conc.heap),
                                          "localhost", conc.containers[c].port)},
                    !.call[p].pc = "accounts"]
    /\ UNCHANGED <<pc, settings, hostIP, kafkaPort, pending, ret, calls, ctr, wt, adminAPIUrl,
                   users, acc, applied, given, rendered>>

\* lines 134-178: the wait succeeds, every account of the call's map is created
\* on the call's container and the container is returned
CCreateUsers(p) ==
    /\ conc.call[p].pc = "accounts"
    /\ LET c == conc.call[p].container
           m == conc.heap[conc.call[p].settings.ServiceAccounts]
       IN conc' = [conc EXCEPT
                     !.containers[c].users =
                         {[username |-> u, password |-> m[u], mechanism |-> "SCRAM-SHA-256"] :
                             u \in DOMAIN m},
                     !.call[p].handle = c,
                     !.call[p].pc = "done"]
    /\ UNCHANGED <<pc, settings, hostIP, kafkaPort, pending, ret, calls, ctr, wt, adminAPIUrl,
                   users, acc, applied, given, rendered>>

\* a stage after the container's creation fails: return nil, err
CFail(p) ==
    /\ conc.call[p].pc \in {"config", "accounts"}
    /\ conc' = [conc EXCEPT !.call[p].pc = "failed"]
    /\ UNCHANGED <<pc, settings, hostIP, kafkaPort, pending, ret, calls, ctr, wt, adminAPIUrl,
                   users, acc, applied, given, rendered>>

ConcNext ==
    \E p \in Callers :
        \/ CDefaultOptions(p)
        \/ CApplyOption(p)
        \/ CCreateContainer(p)
        \/ CInjectNodeConfig(p)
        \/ CCreateUsers(p)
        \/ CFail(p)

ConcSpec == Init /\ [][ConcNext]_vars

----------------------------------------------------------------------------
(* renderNodeConfig on its own, on every value of the settings it reads *)

\* the settings renderNodeConfig may be given
RenderSettings ==
    { [defaultOptions EXCEPT !.KafkaAuthenticationMethod = k,
                             !.KafkaEnableAuthorization = a,
                             !.SchemaRegistryAuthenticationMethod = r,
                             !.Superusers = su] :
        k \in {"none", "sasl"}, a \in BOOLEAN, r \in {"none", "http_basic"},
        su \in {<< >>} \cup SuperuserLists }

\* the arguments of the call: settings, hostIP, advertisedKafkaPort
RenderInit ==
    /\ pc = "render"
    /\ settings \in RenderSettings
    /\ hostIP \in Hosts
    /\ kafkaPort \in {NatPort(n) : n \in HostPorts}
    /\ pending = {}
    /\ ret = [handle |-> NilHandle, err |-> NilErr]
    /\ calls = << >>
    /\ ctr = NoContainer
    /\ wt = NoWait
    /\ adminAPIUrl = << >>
    /\ users = {}
    /\ acc = NoAcc
    /\ applied = << >>
    /\ given = NoneGiven
    /\ rendered = NoRender
    /\ conc = NoCalls

\* renderNodeConfig(settings, hostIP, kafkaPort.Int()): the rendered config, or
\* the error of the template
RenderNodeConfigCall ==
    /\ pc = "render"
    /\ \/ rendered' = [cfg |-> {renderNodeConfig(settings, hostIP, PortInt(kafkaPort))},
                       err |-> NilErr]
       \/ \E e \in RenderErrors : rendered' = [cfg |-> {}, err |-> e]
    /\ pc' = "rendered"
    /\ UNCHANGED <<settings, hostIP, kafkaPort, pending, ret, calls, ctr, wt, adminAPIUrl,
                   users, acc, applied, given, conc>>

RenderNext == RenderNodeConfigCall

RenderSpec == RenderInit /\ [][RenderNext]_vars

\* the %t verb and its inverse
FormatBool(b) == IF b THEN "true" ELSE "false"
ParseBool(t) == t = "true"

\* the inverse of FormatInt on the port numbers of the model
ParseInt(t) ==
    CASE t = "55001" -> 55001
      [] t = "55002" -> 55002
      [] t = "55003" -> 55003
      [] OTHER       -> 0

\* the text of redpanda.yaml: the lines the template fills in, each a key and
\* the text substituted for it
NodeConfigText(params) ==
    { <<"advertised_kafka_api.address", params.KafkaAPI.AdvertisedHost>>,
      <<"advertised_kafka_api.port", FormatInt(params.KafkaAPI.AdvertisedPort)>>,
      <<"kafka_api.authentication_method", params.KafkaAPI.AuthenticationMethod>>,
      <<"kafka_api.enable_authorization", FormatBool(params.KafkaAPI.EnableAuthorization)>>,
      <<"schema_registry_api.authentication_method", params.SchemaRegistry.AuthenticationMethod>> }

\* the value a reader of the text finds under a key
ValueOf(text, key) == CHOOSE v \in {l[2] : l \in {x \in text : x[1] = key}} : TRUE

\* the fields of redpanda.yaml read back from its text
ParseNodeConfig(text) ==
    [ host      |-> ValueOf(text, "advertised_kafka_api.address"),
      port      |-> ParseInt(ValueOf(text, "advertised_kafka_api.port")),
      kafkaAuth |-> ValueOf(text, "kafka_api.authentication_method"),
      authz     |-> ParseBool(ValueOf(text, "kafka_api.enable_authorization")),
      srAuth    |-> ValueOf(text, "schema_registry_api.authentication_method") ]

----------------------------------------------------------------------------
(* Properties *)

\* positions of the calls of StartContainer with operation op and argument arg
CallsOf(op, arg) == {i \in 1..Len(calls) : calls[i].op = op /\ calls[i].arg = arg}
Succeeded(op, arg) == \E i \in CallsOf(op, arg) : calls[i].ok
SucceededBefore(op, arg, i) == \E j \in CallsOf(op, arg) : j < i /\ calls[j].ok
Failed(op, arg) == \E i \in CallsOf(op, arg) : ~calls[i].ok
NodeConfigPath == "/etc/redpanda/redpanda.yaml"

\* C1: the node config is copied into the container only after the container
\* was created and started and Host() and MappedPort(9092/tcp) both succeeded,
\* it advertises exactly that host and port, and when one of the three fails
\* no node config is injected.
C1_ConfigAfterPortKnown ==
    /\ \A i \in CallsOf("CopyToContainer", NodeConfigPath) :
         /\ SucceededBefore("GenericContainer", "", i)
         /\ SucceededBefore("Host", "", i)
         /\ SucceededBefore("MappedPort", defaultKafkaAPIPort, i)
    /\ ctr.nodeConfig # {} =>
         /\ ctr.state \in {"running", "terminated"}
         /\ Succeeded("CopyToContainer", NodeConfigPath)
         /\ \A cfg \in ctr.nodeConfig :
              /\ cfg.KafkaAPI.AdvertisedHost = ctr.host
              /\ cfg.KafkaAPI.AdvertisedPort = ctr.ports[defaultKafkaAPIPort]
    /\ (Failed("GenericContainer", "") \/ Failed("Host", "")
          \/ Failed("MappedPort", defaultKafkaAPIPort)) =>
         /\ CallsOf("CopyToContainer", NodeConfigPath) = {}
         /\ ctr.nodeConfig = {}
         /\ NodeConfigPath \notin ctr.files

\* the node config has been injected into the running container
C1_Witness ==
    /\ ctr.nodeConfig # {}
    /\ NodeConfigPath \in ctr.files
    /\ Succeeded("CopyToContainer", NodeConfigPath)

\* every stage of lines 56-156 succeeded
CoreStagesSucceeded ==
    /\ Succeeded("createEntrypointTmpFile", "")
    /\ Succeeded("createBootstrapConfigFile", "")
    /\ Succeeded("GenericContainer", "")
    /\ Succeeded("Host", "")
    /\ Succeeded("MappedPort", defaultKafkaAPIPort)
    /\ Succeeded("renderNodeConfig", "")
    /\ Succeeded("CopyToContainer", NodeConfigPath)
    /\ Succeeded("WaitUntilReady", "")

\* every stage of lines 159-176 succeeded, for each configured account
AccountStagesSucceeded ==
    /\ Succeeded("MappedPort", defaultAdminAPIPort)
    /\ Succeeded("NewAdminAPI", "")
    /\ \A u \in DOMAIN settings.ServiceAccounts :
         /\ Succeeded("CreateUser", u)
         /\ \E acct \in users : acct.username = u /\ acct.password = settings.ServiceAccounts[u]

\* C2: StartContainer returns a handle, with a nil error, only if every stage
\* succeeded (the account stages when accounts are configured); every other
\* return has a nil handle and a non-nil error, and nothing is returned before
\* the end.
C2_HandleOnlyAfterAllStages ==
    /\ pc # "done" => ret.handle = NilHandle /\ ret.err = NilErr
    /\ pc = "done" =>
         \/ /\ ret.handle = TheContainer
            /\ ret.err = NilErr
            /\ \A i \in 1..Len(calls) : calls[i].ok
            /\ CoreStagesSucceeded
            /\ HasAccounts(settings) => AccountStagesSucceeded
         \/ /\ ret.handle = NilHandle
            /\ ret.err # NilErr

\* StartContainer returned a handle for a broker with two accounts
C2_Witness ==
    /\ pc = "done"
    /\ ret.handle = TheContainer
    /\ Cardinality(DOMAIN settings.ServiceAccounts) = 2
    /\ Cardinality(users) = 2

\* err ends with the error cause
EndsWith(err, cause) ==
    /\ Len(err) >= Len(cause)
    /\ SubSeq(err, Len(err) - Len(cause) + 1, Len(err)) = cause

\* C3: a failed call is the last call StartContainer issues: it returns at
\* once, with no handle and with an error that carries the failed call's
\* error, and no call is ever issued twice.
C3_FailFast ==
    /\ \A i \in 1..Len(calls) :
         ~calls[i].ok =>
            /\ i = Len(calls)
            /\ pc = "done"
            /\ ret.handle = NilHandle
            /\ ret.err # NilErr
            /\ EndsWith(ret.err, calls[i].err)
    /\ \A i, j \in 1..Len(calls) :
         (calls[i].op = calls[j].op /\ calls[i].arg = calls[j].arg) => i = j

\* the caller's context was cancelled during the readiness wait, after the
\* node config had been injected
C3_Witness ==
    /\ pc = "done"
    /\ Len(calls) > 0
    /\ calls[Len(calls)] = Call("WaitUntilReady", "", <<"context canceled">>)
    /\ ctr.nodeConfig # {}
    /\ users = {}

WaitMessage == "failed to wait for Redpanda readiness"

\* C4: the readiness wait reports success only if the log marker was observed
\* and the health probe returned a body whose healthy flag is true; a wait in
\* which one of the two never happened does not end in success.
C4_ReadyNeedsBothSignals ==
    /\ Succeeded("WaitUntilReady", "") =>
         /\ wt.logSeen
         /\ ctr.marker
         /\ wt.healthyReturned
         /\ ctr.healthy
    /\ (~wt.logSeen \/ ~wt.healthyReturned) =>
         /\ ~Succeeded("WaitUntilReady", "")
         /\ pc \notin {"accounts", "createUser"}
         /\ ret.handle = NilHandle

\* the wait has reported success, with both signals observed
C4_Witness ==
    /\ pc = "accounts"
    /\ Succeeded("WaitUntilReady", "")
    /\ wt.logSeen
    /\ wt.healthyReturned

\* C5: the readiness wait always ends, and when its deadline has passed with
\* no log marker observed and no healthy response, StartContainer returns the
\* error "failed to wait for Redpanda readiness" and no handle.
C5_WaitTerminates ==
    /\ (pc = "wait") ~> (pc # "wait")
    /\ (pc = "wait" /\ DeadlinePassed(wt) /\ ~wt.logSeen /\ ~wt.healthyReturned)
         ~> (/\ pc = "done"
             /\ ret.handle = NilHandle
             /\ Len(ret.err) > 0
             /\ Head(ret.err) = WaitMessage)

\* the deadline passed with neither signal, and StartContainer returned the
\* readiness error
C5_Witness ==
    /\ pc = "done"
    /\ DeadlinePassed(wt)
    /\ ~wt.logSeen
    /\ ~wt.healthyReturned
    /\ ~ctr.marker
    /\ ret.err = <<WaitMessage, "deadline exceeded">>

CreateUserCalls == {i \in 1..Len(calls) : calls[i].op = "CreateUser"}
CreatedNames == {a.username : a \in users}

\* C6: the accounts created are exactly those whose create-user call
\* succeeded; when the k-th create-user call fails it is the last call, exactly
\* the k-1 accounts attempted before it exist, and StartContainer returns that
\* error, naming the username, and no handle.
C6_AccountsFailFast ==
    /\ CreatedNames = {calls[i].arg : i \in {j \in CreateUserCalls : calls[j].ok}}
    /\ Cardinality(users) = Cardinality(CreatedNames)
    /\ \A k \in CreateUserCalls :
         ~calls[k].ok =>
            /\ k = Len(calls)
            /\ Cardinality(users) = Cardinality(CreateUserCalls) - 1
            /\ calls[k].arg \notin CreatedNames
            /\ \A u \in pending \ {calls[k].arg} : CallsOf("CreateUser", u) = {}
            /\ pc = "done"
            /\ ret.handle = NilHandle
            /\ ret.err = WrapUser(calls[k].arg, calls[k].err)

\* of several accounts the second create-user call failed: one account
\* exists and another was never attempted
C6_Witness ==
    /\ pc = "done"
    /\ Cardinality(CreateUserCalls) = 2
    /\ ~calls[Len(calls)].ok
    /\ calls[Len(calls)].op = "CreateUser"
    /\ Cardinality(users) = 1
    /\ Cardinality(pending) = 2

\* what an accessor returns for container port p: the host, a colon, the host
\* port mapped to p
HostPortOf(p) == <<ctr.host, ":", FormatInt(ctr.ports[p])>>

\* C7: each accessor that succeeds returns the container's host with the host
\* port mapped to its own container port, KafkaSeedBroker bare and the other
\* two behind "http://"; none returns the port mapped to another service.
C7_AccessorsOwnPort ==
    /\ (acc.fn = "KafkaSeedBroker" /\ acc.err = NilErr) =>
          acc.addr = HostPortOf(defaultKafkaAPIPort)
    /\ (acc.fn = "AdminAPIAddress" /\ acc.err = NilErr) =>
          acc.addr = <<"http://">> \o HostPortOf(defaultAdminAPIPort)
    /\ (acc.fn = "SchemaRegistryAddress" /\ acc.err = NilErr) =>
          acc.addr = <<"http://">> \o HostPortOf(defaultSchemaRegistryPort)
    /\ (acc.fn # "" /\ acc.err = NilErr) =>
          LET own == CASE acc.fn = "KafkaSeedBroker" -> defaultKafkaAPIPort
                       [] acc.fn = "AdminAPIAddress" -> defaultAdminAPIPort
                       [] OTHER -> defaultSchemaRegistryPort
          IN  \A q \in ExposedPorts \ {own} :
                  acc.addr[Len(acc.addr)] # FormatInt(ctr.ports[q])

\* AdminAPIAddress has returned an address
C7_Witness ==
    /\ acc.fn = "AdminAPIAddress"
    /\ acc.err = NilErr
    /\ ctr.state = "running"

\* positions in the applied options of the option built by constructor name
AppliedAt(name) == {i \in 1..Len(applied) : applied[i].name = name}
LastOf(S) == CHOOSE i \in S : \A j \in S : j <= i

\* the fields other than SchemaRegistryAuthenticationMethod hold what the last
\* option that sets them gave them, and the default otherwise
C8_OtherFieldsLastWins ==
    /\ settings.Superusers =
         IF AppliedAt("WithSuperusers") = {} THEN defaultOptions.Superusers
         ELSE applied[LastOf(AppliedAt("WithSuperusers"))].list
    /\ settings.KafkaAuthenticationMethod =
         IF AppliedAt("WithEnableSASL") = {} THEN "none" ELSE "sasl"
    /\ settings.KafkaEnableAuthorization = (AppliedAt("WithEnableKafkaAuthorization") # {})
    /\ DOMAIN settings.ServiceAccounts =
         {applied[i].user : i \in AppliedAt("WithNewServiceAccount")}
    /\ \A u \in DOMAIN settings.ServiceAccounts :
         settings.ServiceAccounts[u] =
            applied[LastOf({i \in AppliedAt("WithNewServiceAccount") : applied[i].user = u})].pass
    /\ settings.Image = defaultOptions.Image

\* C8: the settings are the defaults with each field set by the last option
\* applied for it: WithSuperusers replaces the list, each option changes only
\* its own field, and WithEnableSchemaRegistryHTTPBasicAuth sets
\* SchemaRegistryAuthenticationMethod to "http_basic".
C8_OptionsLastWins ==
    /\ C8_OtherFieldsLastWins
    /\ settings.SchemaRegistryAuthenticationMethod =
         IF AppliedAt("WithEnableSchemaRegistryHTTPBasicAuth") = {} THEN "none" ELSE "http_basic"

\* the calls that go to the container runtime
RuntimeOps == {"GenericContainer", "Host", "MappedPort", "CopyToContainer"}

\* the returned error is the failed call's error behind a context message
WrappedWithContext(err, cause) == Len(err) > Len(cause) /\ EndsWith(err, cause)

\* the failed calls other than create/start are returned behind the message of
\* their stage
C9_StagesAfterCreateWrapped ==
    \A i \in 1..Len(calls) :
       (~calls[i].ok /\ calls[i].op \in RuntimeOps \ {"GenericContainer"} /\ pc = "done") =>
          /\ WrappedWithContext(ret.err, calls[i].err)
          /\ Head(ret.err) =
               CASE calls[i].op = "Host" -> "failed to get container host"
                 [] calls[i].op = "CopyToContainer" -> "failed to copy redpanda.yaml into container"
                 [] calls[i].op = "MappedPort" /\ calls[i].arg = defaultKafkaAPIPort ->
                       "failed to get mapped Kafka port"
                 [] OTHER -> "failed to get mapped Admin API port"

\* C9: every failure of a container-runtime call (create/start, Host,
\* MappedPort, CopyToContainer) is returned wrapped in a message that names
\* the stage.
C9_RuntimeErrorsWrapped ==
    /\ C9_StagesAfterCreateWrapped
    /\ \A i \in 1..Len(calls) :
         (~calls[i].ok /\ calls[i].op = "GenericContainer" /\ pc = "done") =>
            WrappedWithContext(ret.err, calls[i].err)

\* C10: StartContainer never terminates or removes its container: a container
\* is terminated only by the caller holding the returned handle, and after a
\* failed StartContainer the container that was started is still running, with
\* the files it had.
C10_NoCleanup ==
    /\ ctr.state = "terminated" => (pc = "done" /\ ret.handle = TheContainer)
    /\ (pc = "done" /\ ret.handle = NilHandle /\ Succeeded("GenericContainer", "")) =>
         /\ ctr.state = "running"
         /\ {"/entrypoint-tc.sh", "/etc/redpanda/.bootstrap.yaml"} \subseteq ctr.files
         /\ Succeeded("CopyToContainer", NodeConfigPath) => ctr.nodeConfig # {}
    /\ \A i \in 1..Len(calls) : calls[i].op \notin {"Terminate", "Stop", "Remove"}

\* account creation failed after one account was created: the broker is
\* healthy and its container still runs
C10_Witness ==
    /\ pc = "done"
    /\ ret.handle = NilHandle
    /\ Failed("CreateUser", "bob")
    /\ Cardinality(users) = 1
    /\ ctr.state = "running"
    /\ ctr.healthy

\* C11: when StartContainer has failed with its container already started,
\* the outcome of the call lets the caller terminate that container.
C11_CallerCanDispose ==
    (pc = "done" /\ ret.err # NilErr /\ ctr.state = "running") => ENABLED Terminate

\* C12: two concurrent StartContainer calls share no mutable state: each holds
\* a settings map of its own, whose contents are what its own options asked
\* for, and creates a container of its own, whose bootstrap file, node config
\* and accounts come from its own settings alone.
C12_NoSharedState ==
    \A p \in Callers :
        LET me == conc.call[p] IN
        /\ me.pc # "start" =>
              /\ Deref(me.settings, conc.heap) = me.want
              /\ \A q \in Callers \ {p} :
                    conc.call[q].pc # "start" =>
                        conc.call[q].settings.ServiceAccounts # me.settings.ServiceAccounts
        /\ me.container # 0 =>
              /\ \A q \in Callers \ {p} : conc.call[q].container # me.container
              /\ conc.containers[me.container].bootstrap = createBootstrapConfigFile(me.want)
              /\ conc.containers[me.container].nodeConfig \subseteq
                    {renderNodeConfig(me.want, "localhost", conc.containers[me.container].port)}
              /\ {u.username : u \in conc.containers[me.container].users} \subseteq
                    DOMAIN me.want.ServiceAccounts
        /\ me.pc = "done" =>
              /\ me.handle = me.container
              /\ conc.containers[me.container].users =
                    {[username |-> u, password |-> me.want.ServiceAccounts[u],
                      mechanism |-> "SCRAM-SHA-256"] : u \in DOMAIN me.want.ServiceAccounts}

\* both calls have returned, after asking for different accounts and different
\* authentication, each with its own container carrying its own accounts
C12_Witness ==
    /\ conc.call[1].pc = "done" /\ conc.call[2].pc = "done"
    /\ conc.call[1].want.ServiceAccounts = [u \in {"alice"} |-> "pw2"]
    /\ DOMAIN conc.call[2].want.ServiceAccounts = {"bob"}
    /\ conc.call[1].want.KafkaAuthenticationMethod = "sasl"
    /\ conc.call[2].want.KafkaAuthenticationMethod = "none"
    /\ conc.call[2].container = 1
    /\ Cardinality(conc.containers[1].users) = 1

\* the container port an accessor resolves
PortOfAccessor(fn) ==
    CASE fn = "KafkaSeedBroker"       -> defaultKafkaAPIPort
      [] fn = "AdminAPIAddress"       -> defaultAdminAPIPort
      [] fn = "SchemaRegistryAddress" -> defaultSchemaRegistryPort

\* C13: every accessor call resolves host and port anew: a call that returns
\* an error returns the empty string with it, never part of an address; a
\* call on a container that is not running returns an error; and a call that
\* returns an address returns the one the runtime holds at that moment.
C13_AccessorResolvesEachCall ==
    [][acc' # acc =>
         /\ acc'.err # NilErr => acc'.addr = << >>
         /\ ctr.state # "running" => acc'.err # NilErr
         /\ acc'.err = NilErr =>
               acc'.addr = (IF acc'.fn = "KafkaSeedBroker" THEN << >> ELSE <<"http://">>)
                           \o <<ctr.host, ":", FormatInt(ctr.ports[PortOfAccessor(acc'.fn)])>>
      ]_vars

\* the schema registry address was asked for on the terminated container: the
\* port lookup failed and the result is the empty string with the error
C13_Witness ==
    /\ ctr.state = "terminated"
    /\ acc.fn = "SchemaRegistryAddress"
    /\ acc.err = <<"failed to get mapped port", "runtime error">>
    /\ acc.addr = << >>

\* C14: renderNodeConfig is faithful to its inputs: the node config it renders
\* for given settings, host and port reads back as exactly that host, that
\* port, the Kafka authentication method, the authorization flag and the
\* schema registry authentication method of the settings; a call that fails
\* renders nothing.
C14_RenderFaithful ==
    pc = "rendered" =>
        IF rendered.err = NilErr
        THEN /\ Cardinality(rendered.cfg) = 1
             /\ \A cfg \in rendered.cfg :
                   ParseNodeConfig(NodeConfigText(cfg)) =
                       [ host      |-> hostIP,
                         port      |-> PortInt(kafkaPort),
                         kafkaAuth |-> settings.KafkaAuthenticationMethod,
                         authz     |-> settings.KafkaEnableAuthorization,
                         srAuth    |-> settings.SchemaRegistryAuthenticationMethod ]
        ELSE rendered.cfg = {}

\* a config rendered for SASL, authorization and HTTP basic authentication,
\* advertised at 10.0.0.7:55003
C14_Witness ==
    /\ pc = "rendered"
    /\ rendered.err = NilErr
    /\ settings.KafkaAuthenticationMethod = "sasl"
    /\ settings.KafkaEnableAuthorization
    /\ settings.SchemaRegistryAuthenticationMethod = "http_basic"
    /\ \E cfg \in rendered.cfg :
          /\ cfg.KafkaAPI.AdvertisedHost = "10.0.0.7"
          /\ cfg.KafkaAPI.AdvertisedPort = 55003
          /\ cfg.SchemaRegistry.AuthenticationMethod = "http_basic"

\* C15: the container is created with an empty entrypoint and the shim
\* /entrypoint-tc.sh as the first word of its command, followed by the broker's
\* start command; the broker process does not begin, and so neither logs nor
\* reports healthy, before StartContainer has copied redpanda.yaml into the
\* container.
C15_BrokerAfterNodeConfig ==
    /\ ctr.state \in {"created", "running", "terminated"} =>
          /\ ctr.entrypoint = << >>
          /\ ctr.cmd = <<"/entrypoint-tc.sh", "redpanda", "start", "--mode=dev-container">>
    /\ ctr.started =>
          /\ ctr.nodeConfig # {}
          /\ Succeeded("CopyToContainer", NodeConfigPath)
    /\ (ctr.marker \/ ctr.healthy) => ctr.started

\* the node config has been copied and the broker, started by the shim, is
\* up while StartContainer waits for it
C15_Witness ==
    /\ pc = "wait"
    /\ Head(ctr.cmd) = "/entrypoint-tc.sh"
    /\ Succeeded("CopyToContainer", NodeConfigPath)
    /\ ctr.started
    /\ ctr.marker

\* the bodies of a probe that failed for the moment
TransientBodies == {UnreadableBody, MalformedBody, UnhealthyBody}

\* C16: a health body that cannot be read, cannot be parsed or says healthy
\* false is not ready and not an error: the matcher turns it down, the wait
\* goes on polling, and WaitUntilReady fails only with the deadline passed or
\* the context cancelled, never with a probe's failure; once the endpoint
\* reports healthy after such failures and the log marker was seen, the wait
\* can only return success.
C16_TransientProbesRetried ==
    /\ \A body \in TransientBodies : ~ResponseMatcher(body)
    /\ wt.rejected => (pc = "wait" /\ ~Failed("WaitUntilReady", ""))
    /\ wt.healthyReturned => wt.httpSeen
    /\ \A i \in CallsOf("WaitUntilReady", "") :
          ~calls[i].ok =>
             \/ calls[i].err = <<"deadline exceeded">> /\ DeadlinePassed(wt)
             \/ calls[i].err = <<"context canceled">>
    /\ (pc = "wait" /\ ForAllReady(wt)) =>
          /\ ENABLED WaitReady
          /\ ~ENABLED WaitTimeout
          /\ ~ENABLED WaitCancelled

\* the health endpoint was turned down at least once, then reported healthy
\* with the log marker seen, within the deadline: the wait is about to return
\* success
C16_Witness ==
    /\ pc = "wait"
    /\ wt.rejected
    /\ wt.healthyReturned
    /\ ForAllReady(wt)
    /\ wt.elapsed = WaitDeadline

\* the calls of the account stage: the lookup of the admin port, the making of
\* the admin client and the create-user calls
AccountCalls ==
    {i \in 1..Len(calls) :
        \/ calls[i].op = "MappedPort" /\ calls[i].arg = defaultAdminAPIPort
        \/ calls[i].op \in {"NewAdminAPI", "CreateUser"}}

\* C17: accounts are provisioned only after the readiness wait has succeeded
\* and only when the settings hold an account: every call of the account stage
\* follows the success of WaitUntilReady, every create-user call follows the
\* making of the admin client and the completion of the create-user call before
\* it, every account is created with SCRAM-SHA-256, and with no account
\* configured the admin port is not looked up, no admin client is made and no
\* create-user call is issued.
C17_AccountsAfterReadiness ==
    /\ \A i \in AccountCalls :
          /\ SucceededBefore("WaitUntilReady", "", i)
          /\ DOMAIN settings.ServiceAccounts # {}
    /\ \A i \in CreateUserCalls :
          /\ SucceededBefore("NewAdminAPI", "", i)
          /\ calls[i].arg \in DOMAIN settings.ServiceAccounts
          /\ \A j \in CreateUserCalls : j < i => calls[j].ok /\ calls[j].arg # calls[i].arg
    /\ \A a \in users : a.mechanism = "SCRAM-SHA-256"
    /\ (pc # "opts" /\ DOMAIN settings.ServiceAccounts = {}) =>
          /\ AccountCalls = {}
          /\ adminAPIUrl = << >>
          /\ users = {}

\* the wait has succeeded and the loop over two accounts has created the
\* first of them
C17_Witness ==
    /\ pc = "createUser"
    /\ Cardinality(DOMAIN settings.ServiceAccounts) = 2
    /\ Cardinality(users) = 1
    /\ Cardinality(pending) = 1
    /\ Succeeded("WaitUntilReady", "")

\* C18: for every username given with WithNewServiceAccount, however often,
\* the settings hold the password given last; StartContainer issues at most
\* one create-user call for it, every account created carries that password,
\* and a StartContainer that succeeds has issued exactly one.
C18_LastPasswordOneCall ==
    pc # "opts" =>
        /\ DOMAIN settings.ServiceAccounts = DOMAIN given
        /\ \A u \in DOMAIN given :
              /\ settings.ServiceAccounts[u] = given[u].last
              /\ Cardinality(CallsOf("CreateUser", u)) <= 1
              /\ (pc = "done" /\ ret.handle = TheContainer) =>
                    /\ Cardinality(CallsOf("CreateUser", u)) = 1
                    /\ Succeeded("CreateUser", u)
        /\ \A a \in users :
              /\ a.username \in DOMAIN given
              /\ a.password = given[a.username].last
              /\ Succeeded("CreateUser", a.username)

\* "alice" was given first with pw1 and last with pw2, "bob" once: the call
\* succeeded and the account of "alice" exists with pw2
C18_Witness ==
    /\ pc = "done"
    /\ ret.handle = TheContainer
    /\ DOMAIN given = {"alice", "bob"}
    /\ given["alice"] = [first |-> "pw1", last |-> "pw2"]
    /\ {a \in users : a.username = "alice"} =
          {[username |-> "alice", password |-> "pw2", mechanism |-> "SCRAM-SHA-256"]}

\* the permission bits of the owner in a file mode: read 4, write 2, execute 1
OwnerBits(mode) == (mode \div 64) % 8

\* C19: every file StartContainer puts into the container has, read as
\* permission bits, the mode 0700: all of read, write and execute for the
\* owner, the owner's execute bit among them, and nothing else.
C19_FilesOwnerExecutable ==
    \A f \in ctr.fileModes :
        /\ OwnerBits(f.mode) = 7
        /\ OwnerBits(f.mode) % 2 = 1
        /\ f.mode = 7 * 64

\* C20: the address KafkaSeedBroker returns on the container StartContainer
\* returned is the host and port the injected node config advertises for the
\* Kafka API, piece for piece, and the host of the admin client's URL is that
\* same host.
C20_SeedBrokerIsAdvertised ==
    /\ (acc.fn = "KafkaSeedBroker" /\ acc.err = NilErr) =>
          /\ ctr.nodeConfig # {}
          /\ \A cfg \in ctr.nodeConfig :
                acc.addr = <<cfg.KafkaAPI.AdvertisedHost, ":",
                             FormatInt(cfg.KafkaAPI.AdvertisedPort)>>
    /\ adminAPIUrl # << >> =>
          /\ ctr.nodeConfig # {}
          /\ \A cfg \in ctr.nodeConfig : adminAPIUrl[2] = cfg.KafkaAPI.AdvertisedHost
          /\ (acc.fn = "KafkaSeedBroker" /\ acc.err = NilErr) => acc.addr[1] = adminAPIUrl[2]

\* accounts were provisioned through the admin client at 10.0.0.7 and the seed
\* broker asked for afterwards is the advertised 10.0.0.7:55002
C20_Witness ==
    /\ pc = "done"
    /\ ret.handle = TheContainer
    /\ adminAPIUrl # << >>
    /\ adminAPIUrl[2] = "10.0.0.7"
    /\ acc.fn = "KafkaSeedBroker"
    /\ acc.addr = <<"10.0.0.7", ":", "55002">>
    /\ \E cfg \in ctr.nodeConfig : cfg.KafkaAPI.AdvertisedPort = 55002

====
